---------------------------- MODULE Spec2Model ----------------------------
(***************************************************************************)
(* A model of on_search_dashboard.py: the normalizer (load_data), the      *)
(* period selector (get_latest_two_dates), the coverage comparator         *)
(* (buyer_app_summary, get_missing_outlets), the rejection classifier      *)
(* (extract_reason, nack_summary) and the script that chains them.         *)
(*                                                                         *)
(* Python strings are sequences of one-character strings, so that          *)
(* concatenation, substring search, case mapping and lexicographic order   *)
(* are computed rather than assumed.  A data-frame is a sequence of rows,  *)
(* a row a record of cells, a cell a tagged record: Str(s), NaN, None,     *)
(* NaT or a Timestamp.                                                     *)
(***************************************************************************)
EXTENDS Integers, Sequences, FiniteSets, TLC

VARIABLES
    pc,             \* position of the script
    uploaded_file,  \* [present, rows]: what st.file_uploader returned
    df,             \* load_data's result
    dates,          \* get_latest_two_dates' result
    error,          \* TRUE once st.error was shown
    bound,          \* names of the script variables assigned so far
    summary, df_yesterday, df_today,        \* buyer_app_summary's results
    only_yesterday, only_today,             \* get_missing_outlets' results
    nack_sum, nack_df, total_nack,          \* nack_summary's results
    kpi,            \* the KPI scalars of the script
    msg, reason     \* extract_reason's argument and result

vars == <<pc, uploaded_file, df, dates, error, bound, summary, df_yesterday,
          df_today, only_yesterday, only_today, nack_sum, nack_df, total_nack,
          kpi, msg, reason>>

-----------------------------------------------------------------------------
(* Bounds of the model *)

MaxRows == 3

-----------------------------------------------------------------------------
(* Characters and strings *)

\* The characters the model uses, in code-point order.
Chars == <<" ","-","0","1","2","3","4","5","6","7","8","9","A","B","C","D","E","F","G","H","I","J","K","L","M","N","O","P","Q","R","S","T","U","V","W","X","Y","Z","a","b","c","d","e","f","g","h","i","j","k","l","m","n","o","p","q","r","s","t","u","v","w","x","y","z","|">>

CharSet == {Chars[i] : i \in 1..Len(Chars)}

\* The rank of a character in code-point order.
CharRank == [c \in CharSet |-> CHOOSE i \in 1..Len(Chars) : Chars[i] = c]

UpperCase == <<"A","B","C","D","E","F","G","H","I","J","K","L","M","N","O","P","Q","R","S","T","U","V","W","X","Y","Z">>
LowerCase == <<"a","b","c","d","e","f","g","h","i","j","k","l","m","n","o","p","q","r","s","t","u","v","w","x","y","z">>

LetterIndex(alphabet, c) == CHOOSE i \in 1..Len(alphabet) : alphabet[i] = c

IsIn(alphabet, c) == \E i \in 1..Len(alphabet) : alphabet[i] = c

\* str.lower() and str.upper() of one character
LowerChar(c) == IF IsIn(UpperCase, c) THEN LowerCase[LetterIndex(UpperCase, c)] ELSE c
UpperChar(c) == IF IsIn(LowerCase, c) THEN UpperCase[LetterIndex(LowerCase, c)] ELSE c

\* str.lower(), str.upper()
lower(s) == [i \in 1..Len(s) |-> LowerChar(s[i])]
upper(s) == [i \in 1..Len(s) |-> UpperChar(s[i])]

\* Python's  sub in s
Contains(s, sub) ==
    \E i \in 1..(Len(s) - Len(sub) + 1) : SubSeq(s, i, i + Len(sub) - 1) = sub

\* Python's  a < b  on strings: lexicographic by code point
RECURSIVE StrLess(_, _)
StrLess(a, b) ==
    IF b = <<>> THEN FALSE
    ELSE IF a = <<>> THEN TRUE
    ELSE IF a[1] = b[1] THEN StrLess(Tail(a), Tail(b))
    ELSE CharRank[a[1]] < CharRank[b[1]]

-----------------------------------------------------------------------------
(* Cells *)

NaN == [t |-> "NaN"]
None == [t |-> "None"]
NaT == [t |-> "NaT"]
Str(s) == [t |-> "str", v |-> s]
Timestamp(y, m, d, h) == [t |-> "ts", y |-> y, m |-> m, d |-> d, h |-> h]

\* pandas' isna()
IsNull(c) == c.t \in {"NaN", "None", "NaT"}

\* Series + Series on string columns (null propagates)
StrAdd(a, b) == IF IsNull(a) \/ IsNull(b) THEN NaN ELSE Str(a.v \o b.v)

-----------------------------------------------------------------------------
(* Dates *)

Digits == <<"0","1","2","3","4","5","6","7","8","9">>

IsDigit(c) == IsIn(Digits, c)
DigitVal(c) == LetterIndex(Digits, c) - 1

\* a number printed with exactly n digits, zero padded
RECURSIVE ZeroPad(_, _)
ZeroPad(x, n) ==
    IF n = 0 THEN <<>> ELSE ZeroPad(x \div 10, n - 1) \o <<Digits[(x % 10) + 1]>>

\* int() of a digit string
RECURSIVE ToInt(_)
ToInt(s) ==
    IF s = <<>> THEN 0 ELSE 10 * ToInt(SubSeq(s, 1, Len(s) - 1)) + DigitVal(s[Len(s)])

AllDigits(s) == \A i \in 1..Len(s) : IsDigit(s[i])

\* The text forms of a date the model's parser accepts: YYYY-MM-DD.
IsIsoDate(s) ==
    /\ Len(s) = 10
    /\ s[5] = "-" /\ s[8] = "-"
    /\ AllDigits(SubSeq(s, 1, 4)) /\ AllDigits(SubSeq(s, 6, 7)) /\ AllDigits(SubSeq(s, 9, 10))
    /\ ToInt(SubSeq(s, 6, 7)) \in 1..12
    /\ ToInt(SubSeq(s, 9, 10)) \in 1..31

\* pd.to_datetime(cell, errors='coerce')
to_datetime(c) ==
    IF c.t = "ts" THEN c
    ELSE IF c.t = "str" /\ IsIsoDate(c.v)
         THEN Timestamp(ToInt(SubSeq(c.v, 1, 4)), ToInt(SubSeq(c.v, 6, 7)),
                        ToInt(SubSeq(c.v, 9, 10)), 0)
    ELSE NaT

\* Series.dt.strftime('%d-%m-%Y') of one cell
strftime(c) ==
    IF c.t = "ts"
    THEN Str(ZeroPad(c.d, 2) \o <<"-">> \o ZeroPad(c.m, 2) \o <<"-">> \o ZeroPad(c.y, 4))
    ELSE NaN

\* datetime.datetime.strptime(x, '%d-%m-%Y'), as the tuple that orders datetimes
strptime(s) == <<ToInt(SubSeq(s, 7, 10)), ToInt(SubSeq(s, 4, 5)), ToInt(SubSeq(s, 1, 2))>>

\* datetime < datetime
DatetimeLess(a, b) ==
    \/ a[1] < b[1]
    \/ a[1] = b[1] /\ a[2] < b[2]
    \/ a[1] = b[1] /\ a[2] = b[2] /\ a[3] < b[3]

-----------------------------------------------------------------------------
(* Sequences *)

\* the rows of f at the indices in idx, in the order of f
RECURSIVE Select(_, _, _)
Select(f, idx, i) ==
    IF i > Len(f) THEN <<>>
    ELSE (IF i \in idx THEN <<f[i]>> ELSE <<>>) \o Select(f, idx, i + 1)

Range(s) == {s[i] : i \in 1..Len(s)}

\* Series.unique(): the values in order of first appearance
unique(s) ==
    Select(s, {i \in 1..Len(s) : \A j \in 1..(i - 1) : s[j] # s[i]}, 1)

\* sorted(s), where less holds the index pairs <<i, j>> with key(s[i]) < key(s[j]);
\* elements with equal keys stay in their order in s (the sort is stable)
Sorted(s, less) ==
    LET Before(j, i) == <<j, i>> \in less \/ (<<i, j>> \notin less /\ j < i)
        Pos(i) == 1 + Cardinality({j \in 1..Len(s) : j # i /\ Before(j, i)})
    IN  [p \in 1..Len(s) |-> s[CHOOSE i \in 1..Len(s) : Pos(i) = p]]

-----------------------------------------------------------------------------
(* load_data *)

\* df['Searched On'] = pd.to_datetime(...); df['searched_date'] = ...strftime(...)
WithSearchedDate(r) ==
    LET ts == to_datetime(r.SearchedOn)
    IN  [SearchedOn |-> ts, OutletName |-> r.OutletName, BuyerApp |-> r.BuyerApp,
         CityCode |-> r.CityCode, Status |-> r.Status, Message |-> r.Message,
         searched_date |-> strftime(ts)]

\* df.dropna(subset=['searched_date', 'Outlet Name', 'Buyer App'])
dropna(f) ==
    Select(f, {i \in 1..Len(f) : /\ ~IsNull(f[i].searched_date)
                                  /\ ~IsNull(f[i].OutletName)
                                  /\ ~IsNull(f[i].BuyerApp)}, 1)

\* df['dedupe_key'] = df['searched_date'] + "-" + df['Outlet Name'] + "-" + df['Buyer App']
WithDedupeKey(r) ==
    [SearchedOn |-> r.SearchedOn, OutletName |-> r.OutletName, BuyerApp |-> r.BuyerApp,
     CityCode |-> r.CityCode, Status |-> r.Status, Message |-> r.Message,
     searched_date |-> r.searched_date,
     dedupe_key |-> StrAdd(StrAdd(StrAdd(StrAdd(r.searched_date, Str(<<"-">>)),
                                         r.OutletName), Str(<<"-">>)), r.BuyerApp)]

\* a drop_duplicates that scans the frame backwards and emits the rows in scan order
drop_duplicates_backwards(f) ==
    LET rev == [i \in 1..Len(f) |-> f[Len(f) + 1 - i]]
    IN  Select(rev, {i \in 1..Len(rev) :
                        \A j \in 1..(i - 1) : rev[j].dedupe_key # rev[i].dedupe_key}, 1)

\* a drop_duplicates whose result is thrown away
drop_duplicates_unassigned(f) == f

\* df.drop_duplicates(subset='dedupe_key'): the first row of every key, in order
drop_duplicates(f) ==
    Select(f, {i \in 1..Len(f) :
                  \A j \in 1..(i - 1) : f[j].dedupe_key # f[i].dedupe_key}, 1)

\* the steps of load_data on a frame
load_data(f) ==
    LET dated == [i \in 1..Len(f) |-> WithSearchedDate(f[i])]
        complete == dropna(dated)
        keyed == [i \in 1..Len(complete) |-> WithDedupeKey(complete[i])]
    IN  drop_duplicates(keyed)

-----------------------------------------------------------------------------
(* get_latest_two_dates *)

\* df[name] of a string column, as the sequence of its strings
SearchedDates(f) == [i \in 1..Len(f) |-> f[i].searched_date.v]

\* dates[-2:] if len(dates) >= 2 else dates
LastTwo(ds) == IF Len(ds) >= 2 THEN SubSeq(ds, Len(ds) - 1, Len(ds)) ELSE ds

\* the index pairs of u ordered by key=strptime
ByStrptime(u) ==
    {p \in (1..Len(u)) \X (1..Len(u)) : DatetimeLess(strptime(u[p[1]]), strptime(u[p[2]]))}

\* the index pairs of u ordered as strings
ByString(u) ==
    {p \in (1..Len(u)) \X (1..Len(u)) : StrLess(u[p[1]], u[p[2]])}

\* get_latest_two_dates without .unique()
get_latest_two_dates_no_unique(f) ==
    LET u == SearchedDates(f)
    IN  LastTwo(Sorted(u, ByStrptime(u)))

\* get_latest_two_dates without key=: the dd-mm-YYYY texts sorted as strings
get_latest_two_dates_string_order(f) ==
    LET u == unique(SearchedDates(f))
    IN  LastTwo(Sorted(u, ByString(u)))

get_latest_two_dates(f) ==
    LET u == unique(SearchedDates(f))
    IN  LastTwo(Sorted(u, ByStrptime(u)))

-----------------------------------------------------------------------------
(* buyer_app_summary *)

\* df[df['searched_date'] == date]
OnDate(f, date) == Select(f, {i \in 1..Len(f) : f[i].searched_date = Str(date)}, 1)

BuyerApps(f) == [i \in 1..Len(f) |-> f[i].BuyerApp.v]

\* f.groupby('Buyer App')['Outlet Name'].nunique(): a function on the apps of f
GroupNunique(f) ==
    [app \in Range(BuyerApps(f)) |->
        Cardinality({f[i].OutletName : i \in {j \in 1..Len(f) : f[j].BuyerApp.v = app}})]

\* the union of two group indexes, sorted
UnionIndex(c1, c2) ==
    LET u == unique(BuyerApps(c1) \o BuyerApps(c2))
    IN  Sorted(u, ByString(u))

\* one column of pd.DataFrame({...}).fillna(0).astype(int)
Filled(count, app) == IF app \in DOMAIN count THEN count[app] ELSE 0

\* a Difference column computed as date1 - date2
DifferenceSwapped(c1, c2) == c1 - c2

\* summary['Difference'] = summary[date2] - summary[date1]
Difference(c1, c2) == c2 - c1

buyer_app_summary(f, date1, date2) ==
    LET df1 == OnDate(f, date1)
        df2 == OnDate(f, date2)
        count1 == GroupNunique(df1)
        count2 == GroupNunique(df2)
        index == UnionIndex(df1, df2)
    IN  [summary |-> [k \in 1..Len(index) |->
                        [BuyerApp |-> index[k],
                         date1 |-> Filled(count1, index[k]),
                         date2 |-> Filled(count2, index[k]),
                         Difference |-> Difference(Filled(count1, index[k]),
                                                   Filled(count2, index[k]))]],
         df1 |-> df1, df2 |-> df2]

-----------------------------------------------------------------------------
(* get_missing_outlets *)

\* df['Outlet Name'] + "|" + df['Buyer App']  of one row
OutletKey(r) == StrAdd(StrAdd(r.OutletName, Str(<<"|">>)), r.BuyerApp)

\* df['key'] = ...
WithKey(r) ==
    [SearchedOn |-> r.SearchedOn, OutletName |-> r.OutletName, BuyerApp |-> r.BuyerApp,
     CityCode |-> r.CityCode, Status |-> r.Status, Message |-> r.Message,
     searched_date |-> r.searched_date, dedupe_key |-> r.dedupe_key,
     key |-> OutletKey(r)]

\* the frames after the call (both got a key column) and the two results
get_missing_outlets(df1, df2) ==
    LET key1 == {OutletKey(df1[i]) : i \in 1..Len(df1)}
        key2 == {OutletKey(df2[i]) : i \in 1..Len(df2)}
        k1 == [i \in 1..Len(df1) |-> WithKey(df1[i])]
        k2 == [i \in 1..Len(df2) |-> WithKey(df2[i])]
    IN  [df1 |-> k1, df2 |-> k2,
         only_in_1 |-> Select(k1, {i \in 1..Len(k1) : k1[i].key \in key1 \ key2}, 1),
         only_in_2 |-> Select(k2, {i \in 1..Len(k2) : k2[i].key \in key2 \ key1}, 1)]

-----------------------------------------------------------------------------
(* extract_reason *)

kwTimeout == <<"t","i","m","e","o","u","t">>
kwNotFound == <<"n","o","t"," ","f","o","u","n","d">>
kwInventory == <<"i","n","v","e","n","t","o","r","y">>
kwMapped == <<"m","a","p","p","e","d">>
kwBlank == <<"b","l","a","n","k">>
kwDropped == <<"d","r","o","p","p","e","d">>

catTimeout == <<"T","i","m","e","o","u","t">>
catNoItems == <<"N","o"," ","i","t","e","m","s"," ","f","o","u","n","d">>
catInventory == <<"I","n","v","e","n","t","o","r","y"," ","i","s","s","u","e">>
catNoCatalog == <<"N","o"," ","c","a","t","a","l","o","g"," ","m","a","p","p","e","d">>
catBlank == <<"B","l","a","n","k"," ","r","e","s","p","o","n","s","e">>
catDropped == <<"P","r","o","v","i","d","e","r"," ","d","r","o","p","p","e","d">>
catOther == <<"O","t","h","e","r">>

\* Python's str() of a cell: str(float('nan')) is 'nan', str(None) is 'None'
str(c) ==
    IF c.t = "str" THEN c.v
    ELSE IF c.t = "None" THEN <<"N","o","n","e">>
    ELSE <<"n","a","n">>

\* an extract_reason that tests "inventory" before "timeout"
extract_reason_inventory_first(m) ==
    LET text == lower(str(m))
    IN  IF Contains(text, kwInventory) THEN catInventory
        ELSE IF Contains(text, kwTimeout) THEN catTimeout
        ELSE IF Contains(text, kwNotFound) THEN catNoItems
        ELSE IF Contains(text, kwMapped) THEN catNoCatalog
        ELSE IF Contains(text, kwBlank) THEN catBlank
        ELSE IF Contains(text, kwDropped) THEN catDropped
        ELSE catOther

extract_reason(m) ==
    LET text == lower(str(m))
    IN  IF Contains(text, kwTimeout) THEN catTimeout
        ELSE IF Contains(text, kwNotFound) THEN catNoItems
        ELSE IF Contains(text, kwInventory) THEN catInventory
        ELSE IF Contains(text, kwMapped) THEN catNoCatalog
        ELSE IF Contains(text, kwBlank) THEN catBlank
        ELSE IF Contains(text, kwDropped) THEN catDropped
        ELSE catOther

-----------------------------------------------------------------------------
(* nack_summary *)

NACK == <<"N","A","C","K">>

\* a status test without .str.upper()
IsNackCaseSensitive(c) == c.t = "str" /\ c.v = NACK

\* df_today['Status'].str.upper() == 'NACK'  of one cell (a null cell compares False)
IsNack(c) == c.t = "str" /\ upper(c.v) = NACK

\* nack_df['Reason'] = nack_df['Message'].apply(extract_reason)
WithReason(r) ==
    [SearchedOn |-> r.SearchedOn, OutletName |-> r.OutletName, BuyerApp |-> r.BuyerApp,
     CityCode |-> r.CityCode, Status |-> r.Status, Message |-> r.Message,
     searched_date |-> r.searched_date, dedupe_key |-> r.dedupe_key,
     key |-> r.key, Reason |-> extract_reason(r.Message)]

\* the group keys (Buyer App, Reason) of a frame, row by row
GroupKeys(f) == [i \in 1..Len(f) |-> <<f[i].BuyerApp.v, f[i].Reason>>]

\* the index pairs of u, a sequence of (Buyer App, Reason), in groupby's sort order
ByAppReason(u) ==
    {p \in (1..Len(u)) \X (1..Len(u)) :
        \/ StrLess(u[p[1]][1], u[p[2]][1])
        \/ u[p[1]][1] = u[p[2]][1] /\ StrLess(u[p[1]][2], u[p[2]][2])}

RECURSIVE SumStoreCount(_)
SumStoreCount(rows) ==
    IF rows = <<>> THEN 0 ELSE rows[1].StoreCount + SumStoreCount(Tail(rows))

\* a total that counts the summary's rows
TotalAsRowCount(rows) == Len(rows)

\* summary['Store Count'].sum()
TotalRejected(rows) == SumStoreCount(rows)

nack_summary(today) ==
    LET nacks == Select(today, {i \in 1..Len(today) : IsNack(today[i].Status)}, 1)
        nack == [i \in 1..Len(nacks) |-> WithReason(nacks[i])]
        u == unique(GroupKeys(nack))
        groups == Sorted(u, ByAppReason(u))
        rows == [k \in 1..Len(groups) |->
                    [SNo |-> k, BuyerApp |-> groups[k][1], Reason |-> groups[k][2],
                     StoreCount |-> Cardinality({nack[i].OutletName :
                        i \in {j \in 1..Len(nack) :
                                 <<nack[j].BuyerApp.v, nack[j].Reason>> = groups[k]}})]]
    IN  [summary |-> rows, nack_df |-> nack, total_rejected |-> TotalRejected(rows)]

-----------------------------------------------------------------------------
(* The script *)

\* df['Outlet Name'].nunique() and df['Buyer App'].nunique()
NuniqueOutlets(f) == Cardinality({f[i].OutletName : i \in 1..Len(f)})
NuniqueApps(f) == Cardinality({f[i].BuyerApp : i \in 1..Len(f)})

NoKpi ==
    [total_stores_today |-> 0, total_buyer_apps_today |-> 0, total_nacks |-> 0,
     total_stores_yesterday |-> 0, change_in_coverage |-> 0, dropped_apps |-> 0]

\* The state before the script body runs on the rows of file (absent: no upload).
Start(present, rows) ==
    /\ pc = "start"
    /\ uploaded_file = [present |-> present, rows |-> rows]
    /\ df = <<>> /\ dates = <<>> /\ error = FALSE /\ bound = {}
    /\ summary = <<>> /\ df_yesterday = <<>> /\ df_today = <<>>
    /\ only_yesterday = <<>> /\ only_today = <<>>
    /\ nack_sum = <<>> /\ nack_df = <<>> /\ total_nack = 0
    /\ kpi = NoKpi
    /\ msg = NaN /\ reason = <<>>

\* if uploaded_file: df = load_data(uploaded_file)
LoadData ==
    /\ pc = "start"
    /\ uploaded_file.present
    /\ df' = load_data(uploaded_file.rows)
    /\ bound' = bound \cup {"df"}
    /\ pc' = "loaded"
    /\ UNCHANGED <<uploaded_file, dates, error, summary, df_yesterday, df_today,
                   only_yesterday, only_today, nack_sum, nack_df, total_nack, kpi,
                   msg, reason>>

\* dates = get_latest_two_dates(df)
GetLatestTwoDates ==
    /\ pc = "loaded"
    /\ dates' = get_latest_two_dates(df)
    /\ bound' = bound \cup {"dates"}
    /\ pc' = "dated"
    /\ UNCHANGED <<uploaded_file, df, error, summary, df_yesterday, df_today,
                   only_yesterday, only_today, nack_sum, nack_df, total_nack, kpi,
                   msg, reason>>

\* if len(dates) < 2: st.error(...); st.stop()
Stop ==
    /\ pc = "dated"
    /\ Len(dates) < 2
    /\ error' = TRUE
    /\ pc' = "stopped"
    /\ UNCHANGED <<uploaded_file, df, dates, bound, summary, df_yesterday, df_today,
                   only_yesterday, only_today, nack_sum, nack_df, total_nack, kpi,
                   msg, reason>>

\* date1, date2 = dates; summary, df_yesterday, df_today = buyer_app_summary(df, date1, date2)
BuyerAppSummary ==
    /\ pc = "dated"
    /\ ~(Len(dates) < 2)
    /\ LET r == buyer_app_summary(df, dates[1], dates[2])
       IN  /\ summary' = r.summary
           /\ df_yesterday' = r.df1
           /\ df_today' = r.df2
    /\ bound' = bound \cup {"date1", "date2", "summary", "df_yesterday", "df_today"}
    /\ pc' = "summarized"
    /\ UNCHANGED <<uploaded_file, df, dates, error, only_yesterday, only_today,
                   nack_sum, nack_df, total_nack, kpi, msg, reason>>

\* only_yesterday, only_today = get_missing_outlets(df_yesterday, df_today)
GetMissingOutlets ==
    /\ pc = "summarized"
    /\ LET r == get_missing_outlets(df_yesterday, df_today)
       IN  /\ df_yesterday' = r.df1
           /\ df_today' = r.df2
           /\ only_yesterday' = r.only_in_1
           /\ only_today' = r.only_in_2
    /\ bound' = bound \cup {"only_yesterday", "only_today"}
    /\ pc' = "compared"
    /\ UNCHANGED <<uploaded_file, df, dates, error, summary, nack_sum, nack_df,
                   total_nack, kpi, msg, reason>>

\* nack_sum, nack_df, total_nack = nack_summary(df_today)
NackSummary ==
    /\ pc = "compared"
    /\ LET r == nack_summary(df_today)
       IN  /\ nack_sum' = r.summary
           /\ nack_df' = r.nack_df
           /\ total_nack' = r.total_rejected
    /\ bound' = bound \cup {"nack_sum", "nack_df", "total_nack"}
    /\ pc' = "classified"
    /\ UNCHANGED <<uploaded_file, df, dates, error, summary, df_yesterday, df_today,
                   only_yesterday, only_today, kpi, msg, reason>>

\* the KPI metrics
Kpi ==
    /\ pc = "classified"
    /\ kpi' = [total_stores_today |-> NuniqueOutlets(df_today),
               total_buyer_apps_today |-> NuniqueApps(df_today),
               total_nacks |-> total_nack,
               total_stores_yesterday |-> NuniqueOutlets(df_yesterday),
               change_in_coverage |-> NuniqueOutlets(df_today)
                                        - NuniqueOutlets(df_yesterday),
               dropped_apps |-> Cardinality({k \in 1..Len(summary) :
                                                summary[k].Difference < 0})]
    /\ bound' = bound \cup {"kpi"}
    /\ pc' = "rendered"
    /\ UNCHANGED <<uploaded_file, df, dates, error, summary, df_yesterday, df_today,
                   only_yesterday, only_today, nack_sum, nack_df, total_nack,
                   msg, reason>>

Next ==
    \/ LoadData
    \/ GetLatestTwoDates
    \/ Stop
    \/ BuyerAppSummary
    \/ GetMissingOutlets
    \/ NackSummary
    \/ Kpi

\* a call of extract_reason(msg)
ExtractReason ==
    /\ pc = "call"
    /\ reason' = extract_reason(msg)
    /\ pc' = "return"
    /\ UNCHANGED <<uploaded_file, df, dates, error, bound, summary, df_yesterday,
                   df_today, only_yesterday, only_today, nack_sum, nack_df,
                   total_nack, kpi, msg>>

-----------------------------------------------------------------------------
(* Inputs *)

May30 == Timestamp(2024, 5, 30, 9)
Jun1 == Timestamp(2024, 6, 1, 9)
Jun1pm == Timestamp(2024, 6, 1, 17)
Jun2 == Timestamp(2024, 6, 2, 9)
\* a text cell that parses to 2 June 2024, and one that does not parse
Jun2Text == Str(<<"2","0","2","4","-","0","6","-","0","2">>)
Garbage == Str(<<"n","a">>)

ACK == <<"A","C","K">>

Row(ts, outlet, app, status, message) ==
    [SearchedOn |-> ts, OutletName |-> outlet, BuyerApp |-> app,
     CityCode |-> Str(<<"B","L","R">>), Status |-> status, Message |-> message]

\* the files of at most MaxRows rows drawn from rows
Files(rows) == UNION {[1..n -> rows] : n \in 0..MaxRows}

\* Rows of three dates whose texts sort differently as strings and as dates
CoverageRows ==
    {Row(ts, Str(o), Str(a), Str(ACK), NaN) :
        ts \in {May30, Jun1, Jun2}, o \in {<<"A">>, <<"B">>}, a \in {<<"X">>, <<"Y">>}}
    \cup {Row(NaN, Str(<<"A">>), Str(<<"X">>), Str(ACK), NaN)}

\* Rows with repeated keys, names that hold the "-" of the dedupe key, and
\* incomplete rows
NormRows ==
    {Row(ts, Str(p[1]), Str(p[2]), Str(st), NaN) :
        ts \in {Jun1, Jun1pm, Jun2},
        p \in {<< <<"A","-","B">>, <<"X">> >>, << <<"A">>, <<"B","-","X">> >>},
        st \in {ACK, NACK}}
    \cup {Row(NaN, Str(<<"A">>), Str(<<"X">>), Str(ACK), NaN),
          Row(Garbage, Str(<<"A">>), Str(<<"X">>), Str(ACK), NaN),
          Row(Jun2Text, Str(<<"A">>), Str(<<"X">>), Str(ACK), NaN),
          Row(Jun1, NaN, Str(<<"X">>), Str(ACK), NaN),
          Row(Jun1, Str(<<"A">>), NaN, Str(ACK), NaN)}

\* Rows of two dates with names that hold the "|" of the outlet key
DeltaRows ==
    {Row(ts, Str(p[1]), Str(p[2]), Str(ACK), NaN) :
        ts \in {Jun1, Jun2},
        p \in {<< <<"A","|","B">>, <<"X">> >>, << <<"A">>, <<"B","|","X">> >>,
               << <<"A">>, <<"X">> >>, << <<"B">>, <<"X">> >>}}

msgTimeout == <<"R","e","q","u","e","s","t"," ","T","i","m","e","o","u","t">>
msgInventory == <<"i","n","v","e","n","t","o","r","y"," ","e","r","r","o","r">>

\* Later-date rows of mixed status (NACK in two cases, ACK, an empty cell) and
\* message
NackRows ==
    {Row(Jun2, Str(p[1]), Str(p[2]), sm[1], sm[2]) :
        p \in {<< <<"A">>, <<"X">> >>, << <<"B">>, <<"X">> >>, << <<"A">>, <<"Y">> >>},
        sm \in {<<Str(NACK), Str(msgTimeout)>>,
                <<Str(<<"n","a","c","k">>), Str(msgInventory)>>,
                <<Str(NACK), NaN>>}}
    \cup {Row(Jun2, Str(<<"A">>), Str(<<"X">>), Str(ACK), Str(msgTimeout)),
          Row(Jun2, Str(<<"B">>), Str(<<"X">>), Str(ACK), Str(msgTimeout)),
          Row(Jun2, Str(<<"A">>), Str(<<"Y">>), NaN, Str(msgTimeout))}

\* The earlier-date row every file of the rejection runs starts with
EarlierNackRow == Row(Jun1, Str(<<"A">>), Str(<<"X">>), Str(NACK), Str(msgTimeout))

\* The words messages are made of
Words ==
    {kwTimeout, <<"T","i","m","e","O","u","t">>, kwNotFound, kwInventory,
     <<"I","N","V","E","N","T","O","R","Y">>, kwMapped, kwBlank, kwDropped,
     <<"e","r","r","o","r">>}

Messages ==
    {Str(w) : w \in Words}
    \cup {Str(w1 \o <<" ">> \o w2) : w1 \in Words, w2 \in Words}
    \cup {NaN, None}

-----------------------------------------------------------------------------
(* Specifications *)

NoUpload == Start(FALSE, <<>>)

Init == NoUpload \/ \E f \in Files(CoverageRows) : Start(TRUE, f)
Spec == Init /\ [][Next]_vars

InitNorm == NoUpload \/ \E f \in Files(NormRows) : Start(TRUE, f)
SpecNorm == InitNorm /\ [][Next]_vars

InitDelta == NoUpload \/ \E f \in Files(DeltaRows) : Start(TRUE, f)
SpecDelta == InitDelta /\ [][Next]_vars

InitNack == NoUpload \/ \E f \in Files(NackRows) : Start(TRUE, <<EarlierNackRow>> \o f)
SpecNack == InitNack /\ [][Next]_vars

InitReason ==
    \E m \in Messages :
        /\ pc = "call"
        /\ uploaded_file = [present |-> FALSE, rows |-> <<>>]
        /\ df = <<>> /\ dates = <<>> /\ error = FALSE /\ bound = {}
        /\ summary = <<>> /\ df_yesterday = <<>> /\ df_today = <<>>
        /\ only_yesterday = <<>> /\ only_today = <<>>
        /\ nack_sum = <<>> /\ nack_df = <<>> /\ total_nack = 0
        /\ kpi = NoKpi
        /\ msg = m /\ reason = <<>>
NextReason == ExtractReason
SpecReason == InitReason /\ [][NextReason]_vars

-----------------------------------------------------------------------------
(* Properties *)

Running == pc \in {"loaded", "dated", "stopped", "summarized", "compared",
                   "classified", "rendered"}
Summarized == pc \in {"summarized", "compared", "classified", "rendered"}
Compared == pc \in {"compared", "classified", "rendered"}
Classified == pc \in {"classified", "rendered"}

\* the distinct search dates of a normalized frame
DistinctDates(f) == {f[i].searched_date : i \in 1..Len(f)}

\* the calendar day of a normalized row, from its timestamp
Day(r) == <<r.SearchedOn.y, r.SearchedOn.m, r.SearchedOn.d>>

DayBefore(a, b) ==
    \/ a[1] < b[1]
    \/ a[1] = b[1] /\ a[2] < b[2]
    \/ a[1] = b[1] /\ a[2] = b[2] /\ a[3] < b[3]

NothingProduced ==
    /\ bound \subseteq {"df", "dates"}
    /\ summary = <<>> /\ df_yesterday = <<>> /\ df_today = <<>>
    /\ only_yesterday = <<>> /\ only_today = <<>>
    /\ nack_sum = <<>> /\ nack_df = <<>> /\ total_nack = 0
    /\ kpi = NoKpi

\* C1: a run whose normalized records hold fewer than two distinct search dates
\* never gets past the date check: its only step there is the one that reports
\* the error and stops, and no summary, delta, rejection summary or KPI exists.
C1_InsufficientDatesHalt ==
    (Running /\ Cardinality(DistinctDates(df)) < 2) =>
        /\ pc \in {"loaded", "dated", "stopped"}
        /\ NothingProduced
        /\ (pc = "dated" => ENABLED Stop /\ ~ENABLED BuyerAppSummary)
        /\ (pc = "stopped" => error)

\* a run of at least two rows of one date that was stopped with the error
C1_Witness ==
    /\ pc = "stopped" /\ error
    /\ Len(df) >= 2
    /\ Cardinality(DistinctDates(df)) = 1

\* C2: load_data's result holds at most one row per (search_date, outlet_name,
\* buyer_app), and none of the three is null in any row.
C2_OnePerKey ==
    Running =>
        /\ \A i, j \in 1..Len(df) :
              (/\ df[i].searched_date = df[j].searched_date
               /\ df[i].OutletName = df[j].OutletName
               /\ df[i].BuyerApp = df[j].BuyerApp) => i = j
        /\ \A i \in 1..Len(df) :
              /\ ~IsNull(df[i].searched_date)
              /\ ~IsNull(df[i].OutletName)
              /\ ~IsNull(df[i].BuyerApp)

\* two uploaded rows of one timestamp, outlet and app but different status, of
\* which one survived
C2_Witness ==
    /\ pc = "loaded"
    /\ Len(df) = 1
    /\ \E i, j \in 1..Len(uploaded_file.rows) :
          LET a == uploaded_file.rows[i]
              b == uploaded_file.rows[j]
          IN  /\ a.SearchedOn.t = "ts" /\ a.SearchedOn = b.SearchedOn
              /\ ~IsNull(a.OutletName) /\ a.OutletName = b.OutletName
              /\ ~IsNull(a.BuyerApp) /\ a.BuyerApp = b.BuyerApp
              /\ a.Status # b.Status

\* the uploaded rows with a parseable timestamp, an outlet and an app
Eligible ==
    {i \in 1..Len(uploaded_file.rows) :
        /\ to_datetime(uploaded_file.rows[i].SearchedOn).t = "ts"
        /\ ~IsNull(uploaded_file.rows[i].OutletName)
        /\ ~IsNull(uploaded_file.rows[i].BuyerApp)}

\* the (search_date, outlet_name, buyer_app) of an eligible uploaded row
KeyTuple(i) ==
    <<Day([SearchedOn |-> to_datetime(uploaded_file.rows[i].SearchedOn)]),
      uploaded_file.rows[i].OutletName, uploaded_file.rows[i].BuyerApp>>

\* uploaded row i is a row of load_data's result
Survives(i) ==
    \E k \in 1..Len(df) :
        /\ df[k].SearchedOn = to_datetime(uploaded_file.rows[i].SearchedOn)
        /\ df[k].OutletName = uploaded_file.rows[i].OutletName
        /\ df[k].BuyerApp = uploaded_file.rows[i].BuyerApp
        /\ df[k].CityCode = uploaded_file.rows[i].CityCode
        /\ df[k].Status = uploaded_file.rows[i].Status
        /\ df[k].Message = uploaded_file.rows[i].Message

\* C3: the first eligible row of every (search_date, outlet_name, buyer_app) is
\* in load_data's result, and an eligible row is missing from it only when an
\* earlier eligible row has the same three values.
C3_FirstOfEachTupleKept ==
    Running =>
        /\ \A i \in Eligible :
              (\A j \in Eligible : j < i => KeyTuple(j) # KeyTuple(i)) => Survives(i)
        /\ \A i \in Eligible :
              ~Survives(i) => \E j \in Eligible : j < i /\ KeyTuple(j) = KeyTuple(i)

\* C4: with at least two distinct dates, get_latest_two_dates returns two dates
\* of the frame, the first before the second in the calendar, the second the
\* latest date of the frame and no date of the frame between the two.
C4_LatestTwoDates ==
    (pc \in {"dated", "summarized", "compared", "classified", "rendered"}
        /\ Cardinality(DistinctDates(df)) >= 2) =>
        /\ Len(dates) = 2
        /\ \E i, j \in 1..Len(df) :
              /\ df[i].searched_date = Str(dates[1])
              /\ df[j].searched_date = Str(dates[2])
              /\ DayBefore(Day(df[i]), Day(df[j]))
              /\ \A k \in 1..Len(df) :
                    /\ ~DayBefore(Day(df[j]), Day(df[k]))
                    /\ ~(DayBefore(Day(df[i]), Day(df[k])) /\ DayBefore(Day(df[k]), Day(df[j])))

\* a period whose later date is the smaller text: 30-05-2024 before 01-06-2024
C4_Witness ==
    /\ pc = "dated"
    /\ Len(dates) = 2
    /\ StrLess(dates[2], dates[1])

\* C5: buyer_app_summary has one row per buyer app with a record on either date
\* of the period; its two counts are the numbers of distinct outlets of that app
\* on exactly that date, and Difference is the later count minus the earlier.
C5_CoverageSummary ==
    Summarized =>
        LET Outlets(app, d) ==
                {r.OutletName : r \in {x \in Range(df) :
                    x.BuyerApp = Str(app) /\ x.searched_date = Str(d)}}
            apps == {r.BuyerApp.v : r \in {x \in Range(df) :
                        x.searched_date \in {Str(dates[1]), Str(dates[2])}}}
        IN  /\ {summary[k].BuyerApp : k \in 1..Len(summary)} = apps
            /\ Len(summary) = Cardinality(apps)
            /\ \A k \in 1..Len(summary) :
                  /\ summary[k].date1 = Cardinality(Outlets(summary[k].BuyerApp, dates[1]))
                  /\ summary[k].date2 = Cardinality(Outlets(summary[k].BuyerApp, dates[2]))
                  /\ summary[k].Difference =
                        Cardinality(Outlets(summary[k].BuyerApp, dates[2]))
                        - Cardinality(Outlets(summary[k].BuyerApp, dates[1]))

\* one app absent on the earlier date that gained two outlets, another that
\* lost its only outlet
C5_Witness ==
    /\ pc = "summarized"
    /\ \E k \in 1..Len(summary) : summary[k].date1 = 0 /\ summary[k].Difference = 2
    /\ \E k \in 1..Len(summary) : summary[k].date2 = 0 /\ summary[k].Difference = -1

\* C6: lost is exactly the earlier-date rows whose (outlet_name, buyer_app) is
\* that of no later-date row, gained exactly the later-date rows whose pair is
\* that of no earlier-date row, pairs compared field by field; the two share no
\* pair.
C6_ExactSetDifference ==
    Compared =>
        LET SamePair(a, b) == a.OutletName = b.OutletName /\ a.BuyerApp = b.BuyerApp
        IN  /\ only_yesterday =
                  Select(df_yesterday, {i \in 1..Len(df_yesterday) :
                      \A j \in 1..Len(df_today) : ~SamePair(df_yesterday[i], df_today[j])}, 1)
            /\ only_today =
                  Select(df_today, {j \in 1..Len(df_today) :
                      \A i \in 1..Len(df_yesterday) : ~SamePair(df_yesterday[i], df_today[j])}, 1)
            /\ \A i \in 1..Len(only_yesterday) : \A j \in 1..Len(only_today) :
                  ~SamePair(only_yesterday[i], only_today[j])

\* the rules of the classifier, in priority order
Rules ==
    << <<kwTimeout, catTimeout>>, <<kwNotFound, catNoItems>>,
       <<kwInventory, catInventory>>, <<kwMapped, catNoCatalog>>,
       <<kwBlank, catBlank>>, <<kwDropped, catDropped>> >>

\* the category the rules give a message cell
FirstMatch(m) ==
    IF IsNull(m) THEN catOther
    ELSE LET text == [i \in 1..Len(m.v) |-> LowerChar(m.v[i])]
             hits == {k \in 1..Len(Rules) : Contains(text, Rules[k][1])}
         IN  IF hits = {} THEN catOther
             ELSE Rules[CHOOSE k \in hits : \A h \in hits : k <= h][2]

\* C7: extract_reason returns the category of the first rule, in the order
\* timeout, not found, inventory, mapped, blank, dropped, whose text occurs in
\* the lowercased message, Other when none does, and Other for a null message.
C7_FirstRuleWins ==
    pc = "return" => reason = FirstMatch(msg)

\* a message in mixed case that holds inventory before timeout, classified Timeout
C7_Witness ==
    /\ pc = "return"
    /\ msg = Str(<<"I","N","V","E","N","T","O","R","Y">> \o <<" ">> \o <<"T","i","m","e","O","u","t">>)
    /\ reason = catTimeout

\* a status that is NACK up to letter case
IsNackAnyCase(c) ==
    /\ c.t = "str"
    /\ Len(c.v) = Len(NACK)
    /\ \A i \in 1..Len(NACK) : c.v[i] \in {NACK[i], LowerChar(NACK[i])}

\* the later-date records of an app that are rejected for a reason
Rejections(app, rsn) ==
    {r \in Range(df_today) :
        r.BuyerApp = Str(app) /\ IsNackAnyCase(r.Status) /\ FirstMatch(r.Message) = rsn}

Categories ==
    {catTimeout, catNoItems, catInventory, catNoCatalog, catBlank, catDropped, catOther}

\* C8: nack_summary's summary has one row per (buyer_app, reason) that some
\* later-date record of NACK status (in any letter case) has, its store count is
\* the number of distinct outlets of those records, and the rows are numbered
\* 1..n in order.
C8_RejectionSummary ==
    Classified =>
        /\ {<<nack_sum[k].BuyerApp, nack_sum[k].Reason>> : k \in 1..Len(nack_sum)}
              = {g \in Range(BuyerApps(df_today)) \X Categories : Rejections(g[1], g[2]) # {}}
        /\ \A k, h \in 1..Len(nack_sum) :
              (nack_sum[k].BuyerApp = nack_sum[h].BuyerApp
                  /\ nack_sum[k].Reason = nack_sum[h].Reason) => k = h
        /\ \A k \in 1..Len(nack_sum) :
              /\ nack_sum[k].SNo = k
              /\ nack_sum[k].StoreCount =
                    Cardinality({r.OutletName :
                        r \in Rejections(nack_sum[k].BuyerApp, nack_sum[k].Reason)})

\* a group of two outlets rejected in lower case, beside a record of another status
C8_Witness ==
    /\ pc = "classified"
    /\ \E k \in 1..Len(nack_sum) : nack_sum[k].StoreCount = 2
    /\ \E i \in 1..Len(df_today) : df_today[i].Status = Str(<<"n","a","c","k">>)
    /\ \E i \in 1..Len(df_today) : ~IsNackAnyCase(df_today[i].Status)

\* the (buyer_app, outlet_name) pairs of the later-date NACK records
NackPairs ==
    {<<r.BuyerApp, r.OutletName>> : r \in {x \in Range(df_today) : IsNackAnyCase(x.Status)}}

\* no pair is rejected for two different reasons
ReasonsNeverOverlap ==
    \A r1, r2 \in {x \in Range(df_today) : IsNackAnyCase(x.Status)} :
        (r1.BuyerApp = r2.BuyerApp /\ r1.OutletName = r2.OutletName)
            => FirstMatch(r1.Message) = FirstMatch(r2.Message)

\* C9: total_rejected is the sum of the store counts of the summary's rows, and
\* the number of distinct (buyer_app, outlet_name) pairs of the later-date NACK
\* records when no pair has two reasons.
C9_TotalRejected ==
    Classified =>
        /\ total_nack = Cardinality({p \in (1..Len(nack_sum)) \X (1..Len(df_today)) :
                                        p[2] <= nack_sum[p[1]].StoreCount})
        /\ ReasonsNeverOverlap => total_nack = Cardinality(NackPairs)
        /\ (pc = "rendered" => kpi.total_nacks = total_nack)

\* three rejected pairs in two rows of the summary
C9_Witness ==
    /\ pc = "classified"
    /\ Len(nack_sum) = 2
    /\ total_nack = 3

\* C10: load_data's steps applied to load_data's result return that result.
C10_Idempotent ==
    Running => load_data(df) = df

\* a result of two rows or more, from a file that lost rows to the normalizer
C10_Witness ==
    /\ pc = "loaded"
    /\ Len(df) >= 2
    /\ Len(df) < Len(uploaded_file.rows)

=============================================================================
